---- MODULE Spec2Model ----
(***************************************************************************)
(* Model of class threadPool of Analyze_Specified_Directory/main.cpp: one  *)
(* driver thread (main) using the public interface, the worker threads of  *)
(* the pool, and the tasks they execute.  One step of the model is one     *)
(* atomic access of the code: an operation on a std::atomic member or one  *)
(* critical section of queue_mutex.                                        *)
(***************************************************************************)
EXTENDS Integers, Sequences, FiniteSets, TLC

\* ---------------------------------------------------------------- bounds
MaxTasks   == 2   \* push_task calls in one run (driver and tasks together)
MaxThreads == 1   \* largest non-zero thread count given to constructor, reset
MaxResets  == 1   \* calls of reset in one run
MaxToggles == 2   \* stores to the public member paused by the driver
MaxWaits   == 1   \* calls of wait_for_tasks by the driver in one run
\* the same budgets for the runs checked under fairness
LiveTasks   == 2
LiveResets  == 1
LiveToggles == 1
LiveWaits   == 2
\* ui32 is std::uint_fast32_t (modulus 2^32 or 2^64).  TLC's integers stop
\* short of 2^32, so unsigned arithmetic is done modulo WordMod; no count of
\* the model comes near it, and a difference below zero wraps to a non-zero
\* value exactly as it does at the full width.
WordMod    == 65536

\* threadPools: push_task calls, reset calls and wait_for_tasks calls
TPTasks == 2
TPResets == 2
TPWaits == 1

\* entries of the directory tree below the root
MaxEntries == 3

\* ------------------------------------------------------ program constants
HardwareConcurrency == 2

VARIABLES
    paused,        \* std::atomic<bool> paused
    running,       \* std::atomic<bool> running
    tasks,         \* std::queue tasks, as the sequence of queued task ids
    tasks_total,   \* std::atomic<ui32> tasks_total
    thread_count,  \* ui32 thread_count
    threads,       \* the thread array: ids of the threads it holds
    wpc,           \* position of every worker thread ever started
    wtask,         \* the task a worker holds (0: none)
    dpc,           \* position of the driver thread
    was_paused,    \* local of reset
    reset_arg,     \* argument _thread_count of the reset in progress
    wait_ret,      \* caller of the wait_for_tasks in progress
    opA,           \* operand of get_tasks_running evaluated first
    ji,            \* loop index i of create_threads / destroy_threads
    nEnq,          \* number of tasks ever placed in the queue (task ids)
    popOrder,      \* task ids in the order pop_task returned them
    hist,          \* record of what the driver has observed and requested
    tree,          \* the directory tree under the path given to main
    cnt,           \* the global counters howManyDirectories ... nonEmptyLine
    reg,           \* per worker: the value a plain read-modify-write loaded
    iter,          \* per worker: the directory_iterator loop of its task
    taskPath,      \* argument path of every task placed in the queue
    queue_mutex,   \* holder of threadPool::queue_mutex (0: free)
    stream_mutex,  \* holder of syncedStream::stream_mutex (0: free)
    crashed        \* std::terminate was called

vars == <<paused, running, tasks, tasks_total, thread_count, threads, wpc,
          wtask, dpc, was_paused, reset_arg, wait_ret, opA, ji, nEnq,
          popOrder, hist, tree, cnt, reg, iter, taskPath, queue_mutex,
          stream_mutex, crashed>>

poolVars == <<paused, running, tasks, tasks_total, thread_count, threads>>

\* the state of the directory listing and of the two mutexes
extVars == <<tree, cnt, reg, iter, taskPath, queue_mutex, stream_mutex,
             crashed>>

\* ------------------------------------------------------------- helpers
Range(s) == {s[i] : i \in DOMAIN s}

Tids == DOMAIN wpc

Live == {t \in Tids : wpc[t] # "exited"}

\* a worker is executing a task from the call task() until it returns
Executing == {t \in Tids : wpc[t] \in {"run", "t_enq"}}

\* a worker whose task has returned and whose tasks_total-- is still to come
PendingDec == {t \in Tids : wpc[t] = "dec"}

\* push_task calls that have done tasks_total++ and not yet tasks.push
MidPush == (IF dpc = "p_enq" THEN 1 ELSE 0)
           + Cardinality({t \in Tids : wpc[t] = "t_enq"})

Submitted == nEnq + MidPush

Finished == Len(popOrder) - Cardinality(Executing)

IncTotal_Missing(x) == x

\* tasks_total++ and tasks_total-- on the unsigned atomic
IncTotal(x) == (x + 1) % WordMod

DecTotal_Missing(x) == x

DecTotal(x) == (x + WordMod - 1) % WordMod

get_tasks_queued == Len(tasks)

get_tasks_total == tasks_total

\* tasks_total - (ui32)get_tasks_queued(), with the operand values read
Sub32(total, queued) == (total + WordMod - (queued % WordMod)) % WordMod

NewThreadCount_Hardware(k) == HardwareConcurrency

\* _thread_count ? _thread_count : std::thread::hardware_concurrency()
NewThreadCount(k) == IF k # 0 THEN k ELSE HardwareConcurrency

\* std::queue: front() / pop() / push()
QueueFront_Back(q) == q[Len(q)]

QueueFront(q) == Head(q)

QueuePop_Keep(q) == q

QueuePop(q) == Tail(q)

QueuePush(q, x) == Append(q, x)

WaitUnpausedDone_QueueEmpty == Len(tasks) = 0

\* the test of the unpaused branch of wait_for_tasks
WaitUnpausedDone == tasks_total = 0

JoinReady_NoWait(t) == TRUE

\* std::thread::join returns once the thread's function has returned
JoinReady(t) == wpc[t] = "exited"

\* a directory tree: entries 1..n below the root 0, each with its kind
\* and its parent directory; faulty holds the directories that cannot be
\* read
EmptyTree == [n |-> 0, kind |-> <<>>, parent |-> <<>>, faulty |-> {}]

\* the global counters of main.cpp, all zero
ZeroCounters == [dirs |-> 0, files |-> 0, words |-> 0, letters |-> 0,
                 empty |-> 0, nonEmpty |-> 0]

\* no listing in progress, both mutexes free
ExtIdle ==
    /\ tree = EmptyTree
    /\ cnt = ZeroCounters
    /\ reg = <<>>
    /\ iter = <<>>
    /\ taskPath = <<>>
    /\ queue_mutex = 0
    /\ stream_mutex = 0
    /\ crashed = FALSE

\* ---------------------------------------------------------------- Init
InitWith(pushes, toggles, waits, resets) ==
    \E n \in 0..MaxThreads :
        /\ paused = FALSE
        /\ running = TRUE
        /\ tasks = <<>>
        /\ tasks_total = 0
        /\ thread_count = NewThreadCount(n)
        /\ threads = [i \in 1..NewThreadCount(n) |-> i]
        /\ wpc = [i \in 1..NewThreadCount(n) |-> "loop"]
        /\ wtask = [i \in 1..NewThreadCount(n) |-> 0]
        /\ dpc = "idle"
        /\ was_paused = FALSE
        /\ reset_arg = 0
        /\ wait_ret = "idle"
        /\ opA = [which |-> "none", val |-> 0]
        /\ ji = 0
        /\ nEnq = 0
        /\ popOrder = <<>>
        /\ hist = [pushes |-> pushes, toggles |-> toggles, waits |-> waits,
                   resets |-> resets, via |-> "none", enqAtRet |-> -1,
                   lastK |-> -1, preReset |-> {}, qAtReset |-> <<>>,
                   pausedAtReset |-> FALSE, nested |-> FALSE]
        /\ ExtIdle

Init == InitWith(MaxTasks, MaxToggles, MaxWaits, MaxResets)

InitLive == InitWith(LiveTasks, LiveToggles, LiveWaits, LiveResets)

\* ------------------------------------------------- threadPool::worker
workerVars == <<wpc, wtask>>

driverVars == <<dpc, was_paused, reset_arg, wait_ret, opA, ji, hist>>

\* a worker whose loop never tests running
WorkerLoop_NoExit(t) ==
    /\ wpc[t] = "loop"
    /\ wpc' = [wpc EXCEPT ![t] = "chk"]
    /\ UNCHANGED extVars
    /\ UNCHANGED <<poolVars, wtask, driverVars, nEnq, popOrder>>

\* while (running)
WorkerLoop(t) ==
    /\ wpc[t] = "loop"
    /\ wpc' = [wpc EXCEPT ![t] = IF running THEN "chk" ELSE "exited"]
    /\ UNCHANGED extVars
    /\ UNCHANGED <<poolVars, wtask, driverVars, nEnq, popOrder>>

\* if (!paused && ...): the load of paused; when it is true the worker
\* goes through sleep_or_yield back to the loop test
WorkerCheckPaused(t) ==
    /\ wpc[t] = "chk"
    /\ wpc' = [wpc EXCEPT ![t] = IF ~paused THEN "pop" ELSE "loop"]
    /\ UNCHANGED extVars
    /\ UNCHANGED <<poolVars, wtask, driverVars, nEnq, popOrder>>

\* pop_task(task): one critical section of queue_mutex
WorkerPop(t) ==
    /\ wpc[t] = "pop"
    /\ IF tasks = <<>>
       THEN /\ wpc' = [wpc EXCEPT ![t] = "loop"]
            /\ UNCHANGED <<tasks, wtask, popOrder>>
       ELSE /\ wtask' = [wtask EXCEPT ![t] = QueueFront(tasks)]
            /\ tasks' = QueuePop(tasks)
            /\ popOrder' = Append(popOrder, QueueFront(tasks))
            /\ wpc' = [wpc EXCEPT ![t] = "run"]
    /\ UNCHANGED extVars
    /\ UNCHANGED <<paused, running, tasks_total, thread_count, threads,
                   driverVars, nEnq>>

\* a running task calls pool.push_task: tasks_total++
TaskPushInc(t) ==
    /\ wpc[t] = "run"
    /\ hist.pushes > 0
    /\ tasks_total' = IncTotal(tasks_total)
    /\ wpc' = [wpc EXCEPT ![t] = "t_enq"]
    /\ hist' = [hist EXCEPT !.pushes = @ - 1, !.nested = TRUE]
    /\ UNCHANGED extVars
    /\ UNCHANGED <<paused, running, tasks, thread_count, threads, wtask,
                   dpc, was_paused, reset_arg, wait_ret, opA, ji, nEnq,
                   popOrder>>

\* ... then tasks.push under queue_mutex
TaskPushEnq(t) ==
    /\ wpc[t] = "t_enq"
    /\ tasks' = QueuePush(tasks, nEnq + 1)
    /\ nEnq' = nEnq + 1
    /\ wpc' = [wpc EXCEPT ![t] = "run"]
    /\ UNCHANGED extVars
    /\ UNCHANGED <<paused, running, tasks_total, thread_count, threads,
                   wtask, driverVars, popOrder>>

\* task() returns
TaskReturn(t) ==
    /\ wpc[t] = "run"
    /\ wpc' = [wpc EXCEPT ![t] = "dec"]
    /\ UNCHANGED extVars
    /\ UNCHANGED <<poolVars, wtask, driverVars, nEnq, popOrder>>

\* tasks_total--, end of the loop body
WorkerDec(t) ==
    /\ wpc[t] = "dec"
    /\ tasks_total' = DecTotal(tasks_total)
    /\ wtask' = [wtask EXCEPT ![t] = 0]
    /\ wpc' = [wpc EXCEPT ![t] = "loop"]
    /\ UNCHANGED extVars
    /\ UNCHANGED <<paused, running, tasks, thread_count, threads,
                   driverVars, nEnq, popOrder>>

\* the steps of one worker thread
Worker(t) ==
    \/ WorkerLoop(t)
    \/ WorkerCheckPaused(t)
    \/ WorkerPop(t)
    \/ TaskPushInc(t)
    \/ TaskPushEnq(t)
    \/ TaskReturn(t)
    \/ WorkerDec(t)

\* --------------------------------------------- threadPool::push_task
\* called by the driver: tasks_total++
PushTask ==
    /\ dpc = "idle"
    /\ hist.pushes > 0
    /\ tasks_total' = IncTotal(tasks_total)
    /\ dpc' = "p_enq"
    /\ hist' = [hist EXCEPT !.pushes = @ - 1]
    /\ UNCHANGED extVars
    /\ UNCHANGED <<paused, running, tasks, thread_count, threads,
                   workerVars, was_paused, reset_arg, wait_ret, opA, ji,
                   nEnq, popOrder>>

\* ... then tasks.push under queue_mutex
PushTaskEnq ==
    /\ dpc = "p_enq"
    /\ tasks' = QueuePush(tasks, nEnq + 1)
    /\ nEnq' = nEnq + 1
    /\ dpc' = "idle"
    /\ UNCHANGED extVars
    /\ UNCHANGED <<paused, running, tasks_total, thread_count, threads,
                   workerVars, was_paused, reset_arg, wait_ret, opA, ji,
                   hist, popOrder>>

\* the driver stores to the public member paused (pause / resume)
SetPaused ==
    /\ dpc = "idle"
    /\ hist.toggles > 0
    /\ paused' = ~paused
    /\ hist' = [hist EXCEPT !.toggles = @ - 1]
    /\ UNCHANGED extVars
    /\ UNCHANGED <<running, tasks, tasks_total, thread_count, threads,
                   workerVars, dpc, was_paused, reset_arg, wait_ret, opA,
                   ji, nEnq, popOrder>>

\* ------------------------------------------ threadPool::wait_for_tasks
WaitCall ==
    /\ dpc = "idle"
    /\ hist.waits > 0
    /\ dpc' = "w_chk"
    /\ wait_ret' = "idle"
    /\ hist' = [hist EXCEPT !.waits = @ - 1]
    /\ UNCHANGED extVars
    /\ UNCHANGED <<poolVars, workerVars, was_paused, reset_arg, opA, ji,
                   nEnq, popOrder>>

\* one pass of the loop: if (!paused) { if (tasks_total == 0) break; }
\* else the first operand of tasks_total - (ui32)get_tasks_queued() is
\* evaluated; the order of the two operands is unspecified
WaitCheck ==
    /\ dpc = "w_chk"
    /\ IF ~paused
       THEN /\ IF WaitUnpausedDone
               THEN /\ dpc' = "w_done"
                    /\ hist' = [hist EXCEPT !.via = "total"]
               ELSE UNCHANGED <<dpc, hist>>
            /\ UNCHANGED opA
       ELSE /\ \E which \in {"total", "queued"} :
                  opA' = [which |-> which,
                          val |-> IF which = "total" THEN get_tasks_total
                                  ELSE get_tasks_queued]
            /\ dpc' = "w_op2"
            /\ UNCHANGED hist
    /\ UNCHANGED extVars
    /\ UNCHANGED <<poolVars, workerVars, was_paused, reset_arg, wait_ret,
                   ji, nEnq, popOrder>>

\* get_tasks_running(): the other operand, the subtraction and the test
WaitRunning ==
    /\ dpc = "w_op2"
    /\ LET total  == IF opA.which = "total" THEN opA.val ELSE get_tasks_total
           queued == IF opA.which = "queued" THEN opA.val ELSE get_tasks_queued
       IN  IF Sub32(total, queued) = 0
           THEN /\ dpc' = "w_done"
                /\ hist' = [hist EXCEPT !.via = "running"]
           ELSE /\ dpc' = "w_chk"
                /\ UNCHANGED hist
    /\ opA' = [which |-> "none", val |-> 0]
    /\ UNCHANGED extVars
    /\ UNCHANGED <<poolVars, workerVars, was_paused, reset_arg, wait_ret,
                   ji, nEnq, popOrder>>

\* wait_for_tasks returns to its caller; what the record holds about the
\* call ends with it (enqAtRet is kept for a later call to compare with)
WaitReturn ==
    /\ dpc = "w_done"
    /\ dpc' = IF wait_ret = "idle" THEN "idle"
              ELSE IF wait_ret = "reset" THEN "r_stop" ELSE "d_stop"
    /\ wait_ret' = "idle"
    /\ hist' = [hist EXCEPT
                    !.via = "none",
                    !.nested = FALSE,
                    !.enqAtRet = IF wait_ret = "idle" /\ hist.waits > 0
                                 THEN nEnq ELSE @]
    /\ UNCHANGED extVars
    /\ UNCHANGED <<poolVars, workerVars, was_paused, reset_arg, opA, ji,
                   nEnq, popOrder>>

\* --------------------------------------------------- threadPool::reset
\* bool was_paused = paused; paused = true; wait_for_tasks();
ResetCall(k) ==
    /\ dpc = "idle"
    /\ hist.resets > 0
    /\ was_paused' = paused
    /\ paused' = TRUE
    /\ reset_arg' = k
    /\ wait_ret' = "reset"
    /\ dpc' = "w_chk"
    /\ hist' = [hist EXCEPT !.resets = @ - 1, !.lastK = k,
                            !.preReset = Tids, !.qAtReset = tasks,
                            !.pausedAtReset = paused]
    /\ UNCHANGED extVars
    /\ UNCHANGED <<running, tasks, tasks_total, thread_count, threads,
                   workerVars, opA, ji, nEnq, popOrder>>

ResetStop_ClearQueue ==
    /\ dpc = "r_stop"
    /\ running' = FALSE
    /\ tasks' = <<>>
    /\ ji' = 1
    /\ dpc' = "r_join"
    /\ UNCHANGED extVars
    /\ UNCHANGED <<paused, tasks_total, thread_count, threads,
                   workerVars, was_paused, reset_arg, wait_ret, opA, hist,
                   nEnq, popOrder>>

\* running = false;
ResetStop ==
    /\ dpc = "r_stop"
    /\ running' = FALSE
    /\ ji' = 1
    /\ dpc' = "r_join"
    /\ UNCHANGED extVars
    /\ UNCHANGED <<paused, tasks, tasks_total, thread_count, threads,
                   workerVars, was_paused, reset_arg, wait_ret, opA, hist,
                   nEnq, popOrder>>

\* destroy_threads(): for (i < thread_count) threads[i].join();
DestroyThreads ==
    /\ dpc = "r_join"
    /\ IF ji <= thread_count
       THEN /\ JoinReady(threads[ji])
            /\ ji' = ji + 1
            /\ UNCHANGED dpc
       ELSE /\ dpc' = "r_alloc"
            /\ ji' = 0
    /\ UNCHANGED extVars
    /\ UNCHANGED <<poolVars, workerVars, was_paused, reset_arg, wait_ret,
                   opA, hist, nEnq, popOrder>>

\* thread_count = _thread_count ? ... ; threads.reset(new std::thread[...]);
ResetAlloc ==
    /\ dpc = "r_alloc"
    /\ thread_count' = NewThreadCount(reset_arg)
    /\ threads' = <<>>
    /\ dpc' = "r_unpause"
    /\ UNCHANGED extVars
    /\ UNCHANGED <<paused, running, tasks, tasks_total, workerVars,
                   was_paused, reset_arg, wait_ret, opA, ji, hist, nEnq,
                   popOrder>>

\* paused = was_paused;
ResetRestore ==
    /\ dpc = "r_unpause"
    /\ paused' = was_paused
    /\ dpc' = "r_run"
    /\ UNCHANGED extVars
    /\ UNCHANGED <<running, tasks, tasks_total, thread_count, threads,
                   workerVars, was_paused, reset_arg, wait_ret, opA, ji,
                   hist, nEnq, popOrder>>

\* running = true;
ResetRun ==
    /\ dpc = "r_run"
    /\ running' = TRUE
    /\ ji' = 1
    /\ dpc' = "r_create"
    /\ UNCHANGED extVars
    /\ UNCHANGED <<paused, tasks, tasks_total, thread_count, threads,
                   workerVars, was_paused, reset_arg, wait_ret, opA, hist,
                   nEnq, popOrder>>

\* create_threads(): for (i < thread_count) threads[i] = std::thread(worker)
CreateThreads ==
    /\ dpc = "r_create"
    /\ IF ji <= thread_count
       THEN /\ wpc' = Append(wpc, "loop")
            /\ wtask' = Append(wtask, 0)
            /\ threads' = Append(threads, Len(wpc) + 1)
            /\ ji' = ji + 1
            /\ UNCHANGED dpc
       ELSE /\ dpc' = "r_done"
            /\ ji' = 0
            /\ UNCHANGED <<wpc, wtask, threads>>
    /\ UNCHANGED extVars
    /\ UNCHANGED <<paused, running, tasks, tasks_total, thread_count,
                   was_paused, reset_arg, wait_ret, opA, hist, nEnq,
                   popOrder>>

\* reset returns to the driver; its local and what the record holds about
\* the queue at the call end with it
ResetReturn ==
    /\ dpc = "r_done"
    /\ dpc' = "idle"
    /\ was_paused' = FALSE
    /\ hist' = [hist EXCEPT !.qAtReset = <<>>, !.pausedAtReset = FALSE]
    /\ UNCHANGED extVars
    /\ UNCHANGED <<poolVars, workerVars, reset_arg, wait_ret, opA, ji,
                   nEnq, popOrder>>

\* --------------------------------------------- threadPool::~threadPool
\* wait_for_tasks();
DtorCall ==
    /\ dpc = "idle"
    /\ dpc' = "w_chk"
    /\ wait_ret' = "dtor"
    /\ UNCHANGED extVars
    /\ UNCHANGED <<poolVars, workerVars, was_paused, reset_arg, opA, ji,
                   hist, nEnq, popOrder>>

\* running = false;
DtorStop ==
    /\ dpc = "d_stop"
    /\ running' = FALSE
    /\ ji' = 1
    /\ dpc' = "d_join"
    /\ UNCHANGED extVars
    /\ UNCHANGED <<paused, tasks, tasks_total, thread_count, threads,
                   workerVars, was_paused, reset_arg, wait_ret, opA, hist,
                   nEnq, popOrder>>

\* destroy_threads(); and the pool is gone
DtorDestroyThreads ==
    /\ dpc = "d_join"
    /\ IF ji <= thread_count
       THEN /\ JoinReady(threads[ji])
            /\ ji' = ji + 1
            /\ UNCHANGED dpc
       ELSE /\ dpc' = "d_done"
            /\ ji' = 0
    /\ UNCHANGED extVars
    /\ UNCHANGED <<poolVars, workerVars, was_paused, reset_arg, wait_ret,
                   opA, hist, nEnq, popOrder>>

\* the steps of the driver thread
Driver ==
    \/ PushTask
    \/ PushTaskEnq
    \/ SetPaused
    \/ WaitCall
    \/ WaitCheck
    \/ WaitRunning
    \/ WaitReturn
    \/ \E k \in 0..MaxThreads : ResetCall(k)
    \/ ResetStop
    \/ DestroyThreads
    \/ ResetAlloc
    \/ ResetRestore
    \/ ResetRun
    \/ CreateThreads
    \/ ResetReturn

Next ==
    \/ PushTask
    \/ PushTaskEnq
    \/ SetPaused
    \/ WaitCall
    \/ WaitCheck
    \/ WaitRunning
    \/ WaitReturn
    \/ \E k \in 0..MaxThreads : ResetCall(k)
    \/ ResetStop
    \/ DestroyThreads
    \/ ResetAlloc
    \/ ResetRestore
    \/ ResetRun
    \/ CreateThreads
    \/ ResetReturn
    \/ \E t \in Tids : WorkerLoop(t)
    \/ \E t \in Tids : WorkerCheckPaused(t)
    \/ \E t \in Tids : WorkerPop(t)
    \/ \E t \in Tids : TaskPushInc(t)
    \/ \E t \in Tids : TaskPushEnq(t)
    \/ \E t \in Tids : TaskReturn(t)
    \/ \E t \in Tids : WorkerDec(t)

Spec == Init /\ [][Next]_vars

\* an upper bound of the number of threads ever started in one run
MaxTid == ((IF MaxResets > LiveResets THEN MaxResets ELSE LiveResets) + 1)
          * (IF MaxThreads > HardwareConcurrency
             THEN MaxThreads ELSE HardwareConcurrency)

\* every thread that can take a step eventually takes one
FairSpec ==
    /\ InitLive
    /\ [][Next]_vars
    /\ WF_vars(Driver)
    /\ \A t \in 1..MaxTid : WF_vars(t \in Tids /\ Worker(t))

\* the pool used and then destroyed
DriverDtor ==
    \/ Driver
    \/ DtorCall
    \/ DtorStop
    \/ DtorDestroyThreads

NextDtor ==
    \/ Next
    \/ DtorCall
    \/ DtorStop
    \/ DtorDestroyThreads

DtorSpec == Init /\ [][NextDtor]_vars

FairDtorSpec ==
    /\ InitLive
    /\ [][NextDtor]_vars
    /\ WF_vars(DriverDtor)
    /\ \A t \in 1..MaxTid : WF_vars(t \in Tids /\ Worker(t))

\* ------------------------------------------------ listFilesWithThreads
\* the entries of directory d, as directory_iterator(d) yields them
Children(tr, d) == {e \in 1..tr.n : tr.parent[e] = d}

\* !dirEntry.is_regular_file()
IsDir(tr, e) == tr.kind[e] = "dir"

\* fileName.size() and the number of ' ' in fileName: entry e is named by
\* e letters separated by single spaces
NameLen(e) == 2 * e - 1

NameSpaces(e) == e - 1

\* the trees of at most MaxEntries entries; at most one directory (the
\* root included) cannot be read
Trees ==
    {tr \in UNION {[n : {n},
                    kind : [1..n -> {"dir", "file"}],
                    parent : [1..n -> 0..(n - 1)],
                    faulty : SUBSET (0..n)] : n \in 0..MaxEntries} :
        /\ \A e \in 1..tr.n :
              /\ tr.parent[e] < e
              /\ tr.parent[e] = 0 \/ tr.kind[tr.parent[e]] = "dir"
        /\ Cardinality(tr.faulty) <= 1
        /\ \A e \in tr.faulty : e = 0 \/ tr.kind[e] = "dir"}

\* the thread that runs main, as a holder of a mutex
MainThread == -1

\* a worker that is not inside the loop of listFilesWithThreads
NoIter == [left |-> {}, cur |-> 0, sp |-> 0]

\* main after pool.reset(n): n fresh workers, the counters still zero
InitTrav ==
    \E n \in 1..HardwareConcurrency, tr \in Trees :
        /\ paused = FALSE
        /\ running = TRUE
        /\ tasks = <<>>
        /\ tasks_total = 0
        /\ thread_count = n
        /\ threads = [i \in 1..n |-> i]
        /\ wpc = [i \in 1..n |-> "loop"]
        /\ wtask = [i \in 1..n |-> 0]
        /\ dpc = "idle"
        /\ was_paused = FALSE
        /\ reset_arg = 0
        /\ wait_ret = "idle"
        /\ opA = [which |-> "none", val |-> 0]
        /\ ji = 0
        /\ nEnq = 0
        /\ popOrder = <<>>
        /\ hist = [pushes |-> 0, toggles |-> 0, waits |-> 0, resets |-> 0,
                   via |-> "none", enqAtRet |-> -1, lastK |-> -1,
                   preReset |-> {}, qAtReset |-> <<>>,
                   pausedAtReset |-> FALSE, nested |-> FALSE]
        /\ tree = tr
        /\ cnt = ZeroCounters
        /\ reg = [i \in 1..n |-> 0]
        /\ iter = [i \in 1..n |-> NoIter]
        /\ taskPath = <<>>
        /\ queue_mutex = 0
        /\ stream_mutex = 0
        /\ crashed = FALSE

\* what no step of the listing changes
travFixed == <<paused, running, thread_count, threads, was_paused,
               reset_arg, wait_ret, opA, ji, hist, tree>>

\* an exception leaves the function of a std::thread: std::terminate ends
\* the process, every thread with it
Terminate ==
    /\ crashed' = TRUE
    /\ wpc' = [i \in DOMAIN wpc |-> "terminated"]
    /\ dpc' = "terminated"
    /\ UNCHANGED <<travFixed, tasks, tasks_total, wtask, nEnq, popOrder,
                   cnt, reg, iter, taskPath, queue_mutex, stream_mutex>>

\* main: pool.push_task(listFilesWithThreads, path): tasks_total++
MainPushTask ==
    /\ dpc = "idle"
    /\ tasks_total' = IncTotal(tasks_total)
    /\ dpc' = "m_lock"
    /\ UNCHANGED <<travFixed, tasks, wpc, wtask, nEnq, popOrder, cnt, reg,
                   iter, taskPath, queue_mutex, stream_mutex, crashed>>

\* const std::scoped_lock lock(queue_mutex);
MainPushLock ==
    /\ dpc = "m_lock"
    /\ queue_mutex = 0
    /\ queue_mutex' = MainThread
    /\ dpc' = "m_cs"
    /\ UNCHANGED <<travFixed, tasks, tasks_total, wpc, wtask, nEnq,
                   popOrder, cnt, reg, iter, taskPath, stream_mutex,
                   crashed>>

\* tasks.push(...) with the root path; the lock ends with the block and
\* main goes on to pool.wait_for_tasks()
MainPushEnq ==
    /\ dpc = "m_cs"
    /\ tasks' = QueuePush(tasks, nEnq + 1)
    /\ nEnq' = nEnq + 1
    /\ taskPath' = Append(taskPath, 0)
    /\ queue_mutex' = 0
    /\ dpc' = "w_chk"
    /\ UNCHANGED <<travFixed, tasks_total, wpc, wtask, popOrder, cnt, reg,
                   iter, stream_mutex, crashed>>

\* wait_for_tasks, never paused here: if (tasks_total == 0) break;
MainWait ==
    /\ dpc = "w_chk"
    /\ ~paused
    /\ WaitUnpausedDone
    /\ dpc' = "m_done"
    /\ UNCHANGED <<travFixed, tasks, tasks_total, wpc, wtask, nEnq,
                   popOrder, cnt, reg, iter, taskPath, queue_mutex,
                   stream_mutex, crashed>>

\* pop_task: const std::scoped_lock lock(queue_mutex);
TravPopLock(t) ==
    /\ wpc[t] = "pop"
    /\ queue_mutex = 0
    /\ queue_mutex' = t
    /\ wpc' = [wpc EXCEPT ![t] = "pop_cs"]
    /\ UNCHANGED <<travFixed, tasks, tasks_total, wtask, dpc, nEnq,
                   popOrder, cnt, reg, iter, taskPath, stream_mutex,
                   crashed>>

\* pop_task: empty queue, or front() and pop(); the lock ends at return
TravPop(t) ==
    /\ wpc[t] = "pop_cs"
    /\ IF tasks = <<>>
       THEN /\ wpc' = [wpc EXCEPT ![t] = "loop"]
            /\ UNCHANGED <<tasks, wtask, popOrder>>
       ELSE /\ wtask' = [wtask EXCEPT ![t] = QueueFront(tasks)]
            /\ tasks' = QueuePop(tasks)
            /\ popOrder' = Append(popOrder, QueueFront(tasks))
            /\ wpc' = [wpc EXCEPT ![t] = "tv_open"]
    /\ queue_mutex' = 0
    /\ UNCHANGED <<travFixed, tasks_total, dpc, nEnq, cnt, reg, iter,
                   taskPath, stream_mutex, crashed>>

\* task(): std::filesystem::directory_iterator(path) opens the directory,
\* and throws when it cannot
TravOpen(t) ==
    /\ wpc[t] = "tv_open"
    /\ IF taskPath[wtask[t]] \in tree.faulty
       THEN Terminate
       ELSE /\ iter' = [iter EXCEPT ![t] =
                          [left |-> Children(tree, taskPath[wtask[t]]),
                           cur |-> 0, sp |-> 0]]
            /\ wpc' = [wpc EXCEPT ![t] = "tv_next"]
            /\ UNCHANGED <<travFixed, tasks, tasks_total, wtask, dpc, nEnq,
                           popOrder, cnt, reg, taskPath, queue_mutex,
                           stream_mutex, crashed>>

\* the for loop takes the next entry, in no specified order, or ends and
\* the task returns
TravNext(t) ==
    /\ wpc[t] = "tv_next"
    /\ IF iter[t].left = {}
       THEN /\ iter' = [iter EXCEPT ![t] = NoIter]
            /\ wpc' = [wpc EXCEPT ![t] = "dec"]
       ELSE \E e \in iter[t].left :
               /\ iter' = [iter EXCEPT ![t] =
                             [left |-> iter[t].left \ {e}, cur |-> e,
                              sp |-> NameSpaces(e)]]
               /\ wpc' = [wpc EXCEPT ![t] =
                             IF IsDir(tree, e) THEN "tv_pdir" ELSE "ld_files"]
    /\ UNCHANGED <<travFixed, tasks, tasks_total, wtask, dpc, nEnq,
                   popOrder, cnt, reg, taskPath, queue_mutex, stream_mutex,
                   crashed>>

\* syncedStream::print: const std::scoped_lock lock(stream_mutex);
TravPrintLock(t) ==
    /\ wpc[t] \in {"tv_pdir", "tv_pfile"}
    /\ stream_mutex = 0
    /\ stream_mutex' = t
    /\ wpc' = [wpc EXCEPT ![t] =
                  IF wpc[t] = "tv_pdir" THEN "tv_pdir_cs" ELSE "tv_pfile_cs"]
    /\ UNCHANGED <<travFixed, tasks, tasks_total, wtask, dpc, nEnq,
                   popOrder, cnt, reg, iter, taskPath, queue_mutex,
                   crashed>>

\* print writes its items and returns; after "Directory: " the counting
\* goes on, after "Filename: " the loop sleeps and takes the next entry
TravPrintUnlock(t) ==
    /\ wpc[t] \in {"tv_pdir_cs", "tv_pfile_cs"}
    /\ stream_mutex' = 0
    /\ wpc' = [wpc EXCEPT ![t] =
                  IF wpc[t] = "tv_pdir_cs" THEN "ld_dirs" ELSE "tv_next"]
    /\ UNCHANGED <<travFixed, tasks, tasks_total, wtask, dpc, nEnq,
                   popOrder, cnt, reg, iter, taskPath, queue_mutex,
                   crashed>>

\* the counter a position of the loop body reads or writes
CounterAt(pc) ==
    CASE pc \in {"ld_dirs", "st_dirs"} -> "dirs"
      [] pc \in {"ld_empty", "st_empty"} -> "empty"
      [] pc \in {"ld_nonEmpty", "st_nonEmpty"} -> "nonEmpty"
      [] pc \in {"ld_files", "st_files"} -> "files"
      [] pc \in {"ld_letters", "st_letters"} -> "letters"
      [] pc \in {"ld_words", "st_words"} -> "words"

LoadPcs == {"ld_dirs", "ld_empty", "ld_nonEmpty", "ld_files", "ld_letters",
            "ld_words"}

StorePcs == {"st_dirs", "st_empty", "st_nonEmpty", "st_files",
             "st_letters", "st_words"}

StoreAfter(pc) ==
    CASE pc = "ld_dirs" -> "st_dirs"
      [] pc = "ld_empty" -> "st_empty"
      [] pc = "ld_nonEmpty" -> "st_nonEmpty"
      [] pc = "ld_files" -> "st_files"
      [] pc = "ld_letters" -> "st_letters"
      [] pc = "ld_words" -> "st_words"

\* where the loop body goes after a counter is written: an empty directory
\* falls out of the if into the statements that count a file; howManyWords
\* is incremented once and once more for every ' ' of the name
AfterStore(pc, sp) ==
    CASE pc = "st_dirs" -> "tv_isempty"
      [] pc = "st_empty" -> "ld_files"
      [] pc = "st_nonEmpty" -> "tv_push_inc"
      [] pc = "st_files" -> "ld_letters"
      [] pc = "st_letters" -> "ld_words"
      [] pc = "st_words" -> IF sp > 0 THEN "ld_words" ELSE "tv_pfile"

\* counter++ / howManyLetters += fileName.size() on a plain global: the
\* read of the old value ...
TravCounterLoad(t) ==
    /\ wpc[t] \in LoadPcs
    /\ reg' = [reg EXCEPT ![t] = cnt[CounterAt(wpc[t])]]
    /\ wpc' = [wpc EXCEPT ![t] = StoreAfter(wpc[t])]
    /\ UNCHANGED <<travFixed, tasks, tasks_total, wtask, dpc, nEnq,
                   popOrder, cnt, iter, taskPath, queue_mutex,
                   stream_mutex, crashed>>

\* ... and the write of the new one
TravCounterStore(t) ==
    /\ wpc[t] \in StorePcs
    /\ cnt' = [cnt EXCEPT ![CounterAt(wpc[t])] =
                  reg[t] + (IF wpc[t] = "st_letters"
                            THEN NameLen(iter[t].cur) ELSE 1)]
    /\ reg' = [reg EXCEPT ![t] = 0]
    /\ iter' = [iter EXCEPT ![t].sp =
                   IF wpc[t] = "st_words" /\ @ > 0 THEN @ - 1 ELSE @]
    /\ wpc' = [wpc EXCEPT ![t] = AfterStore(wpc[t], iter[t].sp)]
    /\ UNCHANGED <<travFixed, tasks, tasks_total, wtask, dpc, nEnq,
                   popOrder, taskPath, queue_mutex, stream_mutex, crashed>>

\* std::filesystem::is_empty(dirEntry): throws when the directory cannot
\* be read; a directory that goes wrong only later is still answered
TravIsEmpty(t) ==
    /\ wpc[t] = "tv_isempty"
    /\ \/ /\ iter[t].cur \in tree.faulty
          /\ Terminate
       \/ /\ wpc' = [wpc EXCEPT ![t] =
                        IF Children(tree, iter[t].cur) = {}
                        THEN "ld_empty" ELSE "ld_nonEmpty"]
          /\ UNCHANGED <<travFixed, tasks, tasks_total, wtask, dpc, nEnq,
                         popOrder, cnt, reg, iter, taskPath, queue_mutex,
                         stream_mutex, crashed>>

\* pool.push_task(listFilesWithThreads, path + "/" + DirectoryName):
\* tasks_total++
TravPushInc(t) ==
    /\ wpc[t] = "tv_push_inc"
    /\ tasks_total' = IncTotal(tasks_total)
    /\ wpc' = [wpc EXCEPT ![t] = "tv_push_lock"]
    /\ UNCHANGED <<travFixed, tasks, wtask, dpc, nEnq, popOrder, cnt, reg,
                   iter, taskPath, queue_mutex, stream_mutex, crashed>>

\* const std::scoped_lock lock(queue_mutex);
TravPushLock(t) ==
    /\ wpc[t] = "tv_push_lock"
    /\ queue_mutex = 0
    /\ queue_mutex' = t
    /\ wpc' = [wpc EXCEPT ![t] = "tv_push_cs"]
    /\ UNCHANGED <<travFixed, tasks, tasks_total, wtask, dpc, nEnq,
                   popOrder, cnt, reg, iter, taskPath, stream_mutex,
                   crashed>>

\* a push_task that returns with queue_mutex still held
TravPushEnq_KeepLock(t) ==
    /\ wpc[t] = "tv_push_cs"
    /\ tasks' = QueuePush(tasks, nEnq + 1)
    /\ nEnq' = nEnq + 1
    /\ taskPath' = Append(taskPath, iter[t].cur)
    /\ wpc' = [wpc EXCEPT ![t] = "tv_next"]
    /\ UNCHANGED <<travFixed, tasks_total, wtask, dpc, popOrder, cnt, reg,
                   iter, queue_mutex, stream_mutex, crashed>>

\* tasks.push(...); the lock ends with the block; continue;
TravPushEnq(t) ==
    /\ wpc[t] = "tv_push_cs"
    /\ tasks' = QueuePush(tasks, nEnq + 1)
    /\ nEnq' = nEnq + 1
    /\ taskPath' = Append(taskPath, iter[t].cur)
    /\ queue_mutex' = 0
    /\ wpc' = [wpc EXCEPT ![t] = "tv_next"]
    /\ UNCHANGED <<travFixed, tasks_total, wtask, dpc, popOrder, cnt, reg,
                   iter, stream_mutex, crashed>>

\* one run of main's loop body: the root task and the workers listing
NextTrav ==
    \/ MainPushTask
    \/ MainPushLock
    \/ MainPushEnq
    \/ MainWait
    \/ \E t \in Tids : WorkerLoop(t)
    \/ \E t \in Tids : WorkerCheckPaused(t)
    \/ \E t \in Tids : TravPopLock(t)
    \/ \E t \in Tids : TravPop(t)
    \/ \E t \in Tids : TravOpen(t)
    \/ \E t \in Tids : TravNext(t)
    \/ \E t \in Tids : TravPrintLock(t)
    \/ \E t \in Tids : TravPrintUnlock(t)
    \/ \E t \in Tids : TravCounterLoad(t)
    \/ \E t \in Tids : TravCounterStore(t)
    \/ \E t \in Tids : TravIsEmpty(t)
    \/ \E t \in Tids : TravPushInc(t)
    \/ \E t \in Tids : TravPushLock(t)
    \/ \E t \in Tids : TravPushEnq(t)
    \/ \E t \in Tids : WorkerDec(t)

TravSpec == InitTrav /\ [][NextTrav]_vars

\* what one entry adds to the counters when the loop body runs undisturbed
AddEntry(c, tr, e) ==
    LET isDir  == IsDir(tr, e)
        empty  == Children(tr, e) = {}
        asFile == ~isDir \/ empty
    IN  [dirs     |-> c.dirs + (IF isDir THEN 1 ELSE 0),
         empty    |-> c.empty + (IF isDir /\ empty THEN 1 ELSE 0),
         nonEmpty |-> c.nonEmpty + (IF isDir /\ ~empty THEN 1 ELSE 0),
         files    |-> c.files + (IF asFile THEN 1 ELSE 0),
         letters  |-> c.letters + (IF asFile THEN NameLen(e) ELSE 0),
         words    |-> c.words + (IF asFile THEN 1 + NameSpaces(e) ELSE 0)]

RECURSIVE SeqCounters(_, _)
\* the counters after the entries 1..k are listed one after another
SeqCounters(tr, k) ==
    IF k = 0 THEN ZeroCounters ELSE AddEntry(SeqCounters(tr, k - 1), tr, k)

\* ================================================ class threadPools
\* Thread_Pool.hpp: paused, running and tasks_total are plain members, so
\* tasks_total++ and tasks_total-- are a read and a later write; every
\* other read of a plain member takes the value in memory at its step.

\* values the uninitialized member thread_count may hold in the constructor
UninitThreadCounts == {-1, 0, 1}

\* thread_count = std::thread::hardware_concurrency();
TPNewThreadCount(k) == HardwareConcurrency

\* a worker holds a task from pop_task until its tasks_total-- is written
TPHolding == {t \in Tids : wpc[t] \in {"run", "t_st", "t_enq", "dec", "dec_st"}}

\* a worker is executing a task from the call task() until it returns
TPExecuting == {t \in Tids : wpc[t] \in {"run", "t_st", "t_enq"}}

\* push_task calls that have written tasks_total and not yet pushed
TPMidPush == (IF dpc = "p_enq" THEN 1 ELSE 0)
             + Cardinality({t \in Tids : wpc[t] = "t_enq"})

\* the object after threadPools(n): thread_count was never assigned and
\* threads holds no array; create_threads() starts no thread when the
\* value is not positive and stores through the null array otherwise
InitTP ==
    \E g \in UninitThreadCounts :
        /\ paused = FALSE
        /\ running = TRUE
        /\ tasks = <<>>
        /\ tasks_total = 0
        /\ thread_count = g
        /\ threads = <<>>
        /\ wpc = <<>>
        /\ wtask = <<>>
        /\ dpc = IF g > 0 THEN "terminated" ELSE "idle"
        /\ crashed = (g > 0)
        /\ was_paused = FALSE
        /\ reset_arg = 0
        /\ wait_ret = "idle"
        /\ opA = [which |-> "none", val |-> 0]
        /\ ji = 0
        /\ nEnq = 0
        /\ popOrder = <<>>
        /\ hist = [pushes |-> TPTasks, toggles |-> 0, waits |-> TPWaits,
                   resets |-> TPResets, via |-> "none", enqAtRet |-> -1,
                   lastK |-> -1, preReset |-> {}, qAtReset |-> <<>>,
                   pausedAtReset |-> FALSE, nested |-> FALSE]
        /\ tree = EmptyTree
        /\ cnt = ZeroCounters
        /\ reg = <<>>
        /\ iter = <<>>
        /\ taskPath = <<>>
        /\ queue_mutex = 0
        /\ stream_mutex = 0

\* what no step of threadPools changes
tpFixed == <<tree, cnt, iter, taskPath, queue_mutex, stream_mutex, crashed>>

\* ------------------------------------------------ threadPools::worker
\* while (running)
TPWorkerLoop(t) ==
    /\ wpc[t] = "loop"
    /\ wpc' = [wpc EXCEPT ![t] = IF running THEN "chk" ELSE "exited"]
    /\ UNCHANGED <<tpFixed, poolVars, wtask, driverVars, nEnq, popOrder,
                   reg>>

\* if (!paused && ...), else sleep_or_yield()
TPWorkerCheckPaused(t) ==
    /\ wpc[t] = "chk"
    /\ wpc' = [wpc EXCEPT ![t] = IF ~paused THEN "pop" ELSE "loop"]
    /\ UNCHANGED <<tpFixed, poolVars, wtask, driverVars, nEnq, popOrder,
                   reg>>

\* pop_task(task): one critical section of queue_mutex
TPWorkerPop(t) ==
    /\ wpc[t] = "pop"
    /\ IF tasks = <<>>
       THEN /\ wpc' = [wpc EXCEPT ![t] = "loop"]
            /\ UNCHANGED <<tasks, wtask, popOrder>>
       ELSE /\ wtask' = [wtask EXCEPT ![t] = QueueFront(tasks)]
            /\ tasks' = QueuePop(tasks)
            /\ popOrder' = Append(popOrder, QueueFront(tasks))
            /\ wpc' = [wpc EXCEPT ![t] = "run"]
    /\ UNCHANGED <<tpFixed, paused, running, tasks_total, thread_count,
                   threads, driverVars, nEnq, reg>>

\* a running task calls push_task: tasks_total++ reads tasks_total ...
TPTaskPushLoad(t) ==
    /\ wpc[t] = "run"
    /\ hist.pushes > 0
    /\ reg' = [reg EXCEPT ![t] = tasks_total]
    /\ wpc' = [wpc EXCEPT ![t] = "t_st"]
    /\ hist' = [hist EXCEPT !.pushes = @ - 1]
    /\ UNCHANGED <<tpFixed, poolVars, wtask, dpc, was_paused, reset_arg,
                   wait_ret, opA, ji, nEnq, popOrder>>

\* ... and writes the value read plus one
TPTaskPushStore(t) ==
    /\ wpc[t] = "t_st"
    /\ tasks_total' = reg[t] + 1
    /\ reg' = [reg EXCEPT ![t] = 0]
    /\ wpc' = [wpc EXCEPT ![t] = "t_enq"]
    /\ UNCHANGED <<tpFixed, paused, running, tasks, thread_count, threads,
                   wtask, driverVars, nEnq, popOrder>>

\* ... then tasks.push under queue_mutex
TPTaskPushEnq(t) ==
    /\ wpc[t] = "t_enq"
    /\ tasks' = QueuePush(tasks, nEnq + 1)
    /\ nEnq' = nEnq + 1
    /\ wpc' = [wpc EXCEPT ![t] = "run"]
    /\ UNCHANGED <<tpFixed, paused, running, tasks_total, thread_count,
                   threads, wtask, driverVars, popOrder, reg>>

\* task() returns
TPTaskReturn(t) ==
    /\ wpc[t] = "run"
    /\ wpc' = [wpc EXCEPT ![t] = "dec"]
    /\ UNCHANGED <<tpFixed, poolVars, wtask, driverVars, nEnq, popOrder,
                   reg>>

\* tasks_total-- reads tasks_total ...
TPWorkerDecLoad(t) ==
    /\ wpc[t] = "dec"
    /\ reg' = [reg EXCEPT ![t] = tasks_total]
    /\ wpc' = [wpc EXCEPT ![t] = "dec_st"]
    /\ UNCHANGED <<tpFixed, poolVars, wtask, driverVars, nEnq, popOrder>>

\* ... and writes the value read minus one; end of the loop body
TPWorkerDecStore(t) ==
    /\ wpc[t] = "dec_st"
    /\ tasks_total' = reg[t] - 1
    /\ reg' = [reg EXCEPT ![t] = 0]
    /\ wtask' = [wtask EXCEPT ![t] = 0]
    /\ wpc' = [wpc EXCEPT ![t] = "loop"]
    /\ UNCHANGED <<tpFixed, paused, running, tasks, thread_count, threads,
                   driverVars, nEnq, popOrder>>

\* --------------------------------------------- threadPools::push_task
\* called by the driver: tasks_total++ reads tasks_total ...
TPPushLoad ==
    /\ dpc = "idle"
    /\ hist.pushes > 0
    /\ opA' = [which |-> "inc", val |-> tasks_total]
    /\ dpc' = "p_st"
    /\ hist' = [hist EXCEPT !.pushes = @ - 1]
    /\ UNCHANGED <<tpFixed, poolVars, workerVars, was_paused, reset_arg,
                   wait_ret, ji, nEnq, popOrder, reg>>

\* ... and writes the value read plus one
TPPushStore ==
    /\ dpc = "p_st"
    /\ tasks_total' = opA.val + 1
    /\ opA' = [which |-> "none", val |-> 0]
    /\ dpc' = "p_enq"
    /\ UNCHANGED <<tpFixed, paused, running, tasks, thread_count, threads,
                   workerVars, was_paused, reset_arg, wait_ret, ji, hist,
                   nEnq, popOrder, reg>>

\* ... then tasks.push under queue_mutex
TPPushEnq ==
    /\ dpc = "p_enq"
    /\ tasks' = QueuePush(tasks, nEnq + 1)
    /\ nEnq' = nEnq + 1
    /\ dpc' = "idle"
    /\ UNCHANGED <<tpFixed, paused, running, tasks_total, thread_count,
                   threads, workerVars, was_paused, reset_arg, wait_ret,
                   opA, ji, hist, popOrder, reg>>

\* ----------------------------------------- threadPools::wait_for_tasks
TPWaitCall ==
    /\ dpc = "idle"
    /\ hist.waits > 0
    /\ dpc' = "w_chk"
    /\ wait_ret' = "idle"
    /\ hist' = [hist EXCEPT !.waits = @ - 1]
    /\ UNCHANGED <<tpFixed, poolVars, workerVars, was_paused, reset_arg,
                   opA, ji, nEnq, popOrder, reg>>

\* get_tasks(): return tasks_total;
TPget_tasks == tasks_total

\* one pass of the loop: if (!paused) { if (tasks_total == 0) break; }
\* else { if (get_tasks() == 0) break; }
TPWaitCheck ==
    /\ dpc = "w_chk"
    /\ dpc' = IF ~paused
              THEN (IF tasks_total = 0 THEN "w_done" ELSE "w_sleep")
              ELSE (IF TPget_tasks = 0 THEN "w_done" ELSE "w_sleep")
    /\ UNCHANGED <<tpFixed, poolVars, workerVars, was_paused, reset_arg,
                   wait_ret, opA, ji, hist, nEnq, popOrder, reg>>

\* sleep_or_yield(); and the next pass
TPWaitSleep ==
    /\ dpc = "w_sleep"
    /\ dpc' = "w_chk"
    /\ UNCHANGED <<tpFixed, poolVars, workerVars, was_paused, reset_arg,
                   wait_ret, opA, ji, hist, nEnq, popOrder, reg>>

\* wait_for_tasks returns to the driver or to reset
TPWaitReturn ==
    /\ dpc = "w_done"
    /\ dpc' = IF wait_ret = "idle" THEN "idle" ELSE "r_stop"
    /\ wait_ret' = "idle"
    /\ UNCHANGED <<tpFixed, poolVars, workerVars, was_paused, reset_arg,
                   opA, ji, hist, nEnq, popOrder, reg>>

\* -------------------------------------------------- threadPools::reset
\* bool was_paused = paused; paused = true; wait_for_tasks();
TPResetCall(k) ==
    /\ dpc = "idle"
    /\ hist.resets > 0
    /\ was_paused' = paused
    /\ paused' = TRUE
    /\ reset_arg' = k
    /\ wait_ret' = "reset"
    /\ dpc' = "w_chk"
    /\ hist' = [hist EXCEPT !.resets = @ - 1, !.lastK = k]
    /\ UNCHANGED <<tpFixed, running, tasks, tasks_total, thread_count,
                   threads, workerVars, opA, ji, nEnq, popOrder, reg>>

\* running = false;
TPResetStop ==
    /\ dpc = "r_stop"
    /\ running' = FALSE
    /\ ji' = 1
    /\ dpc' = "r_join"
    /\ UNCHANGED <<tpFixed, paused, tasks, tasks_total, thread_count,
                   threads, workerVars, was_paused, reset_arg, wait_ret,
                   opA, hist, nEnq, popOrder, reg>>

\* destroy_threads(): for (i < thread_count) threads[i].join();
TPDestroyThreads ==
    /\ dpc = "r_join"
    /\ IF ji <= thread_count
       THEN /\ JoinReady(threads[ji])
            /\ ji' = ji + 1
            /\ UNCHANGED dpc
       ELSE /\ dpc' = "r_alloc"
            /\ ji' = 0
    /\ UNCHANGED <<tpFixed, poolVars, workerVars, was_paused, reset_arg,
                   wait_ret, opA, hist, nEnq, popOrder, reg>>

\* thread_count = std::thread::hardware_concurrency();
\* threads.reset(new std::thread[thread_count]);
TPResetAlloc ==
    /\ dpc = "r_alloc"
    /\ thread_count' = TPNewThreadCount(reset_arg)
    /\ threads' = <<>>
    /\ dpc' = "r_unpause"
    /\ UNCHANGED <<tpFixed, paused, running, tasks, tasks_total,
                   workerVars, was_paused, reset_arg, wait_ret, opA, ji,
                   hist, nEnq, popOrder, reg>>

\* paused = was_paused;
TPResetRestore ==
    /\ dpc = "r_unpause"
    /\ paused' = was_paused
    /\ dpc' = "r_run"
    /\ UNCHANGED <<tpFixed, running, tasks, tasks_total, thread_count,
                   threads, workerVars, was_paused, reset_arg, wait_ret,
                   opA, ji, hist, nEnq, popOrder, reg>>

\* running = true;
TPResetRun ==
    /\ dpc = "r_run"
    /\ running' = TRUE
    /\ ji' = 1
    /\ dpc' = "r_create"
    /\ UNCHANGED <<tpFixed, paused, tasks, tasks_total, thread_count,
                   threads, workerVars, was_paused, reset_arg, wait_ret,
                   opA, hist, nEnq, popOrder, reg>>

\* create_threads(): for (i < thread_count) threads[i] = std::thread(...)
TPCreateThreads ==
    /\ dpc = "r_create"
    /\ IF ji <= thread_count
       THEN /\ wpc' = Append(wpc, "loop")
            /\ wtask' = Append(wtask, 0)
            /\ reg' = Append(reg, 0)
            /\ threads' = Append(threads, Len(wpc) + 1)
            /\ ji' = ji + 1
            /\ UNCHANGED dpc
       ELSE /\ dpc' = "r_done"
            /\ ji' = 0
            /\ UNCHANGED <<wpc, wtask, reg, threads>>
    /\ UNCHANGED <<tpFixed, paused, running, tasks, tasks_total,
                   thread_count, was_paused, reset_arg, wait_ret, opA,
                   hist, nEnq, popOrder>>

\* reset returns to the driver
TPResetReturn ==
    /\ dpc = "r_done"
    /\ dpc' = "idle"
    /\ was_paused' = FALSE
    /\ UNCHANGED <<tpFixed, poolVars, workerVars, reset_arg, wait_ret,
                   opA, ji, hist, nEnq, popOrder, reg>>

NextTP ==
    \/ TPPushLoad
    \/ TPPushStore
    \/ TPPushEnq
    \/ TPWaitCall
    \/ TPWaitCheck
    \/ TPWaitSleep
    \/ TPWaitReturn
    \/ \E k \in 0..MaxThreads : TPResetCall(k)
    \/ TPResetStop
    \/ TPDestroyThreads
    \/ TPResetAlloc
    \/ TPResetRestore
    \/ TPResetRun
    \/ TPCreateThreads
    \/ TPResetReturn
    \/ \E t \in Tids : TPWorkerLoop(t)
    \/ \E t \in Tids : TPWorkerCheckPaused(t)
    \/ \E t \in Tids : TPWorkerPop(t)
    \/ \E t \in Tids : TPTaskPushLoad(t)
    \/ \E t \in Tids : TPTaskPushStore(t)
    \/ \E t \in Tids : TPTaskPushEnq(t)
    \/ \E t \in Tids : TPTaskReturn(t)
    \/ \E t \in Tids : TPWorkerDecLoad(t)
    \/ \E t \in Tids : TPWorkerDecStore(t)

TPSpec == InitTP /\ [][NextTP]_vars

TypeOK ==
    /\ paused \in BOOLEAN
    /\ running \in BOOLEAN
    /\ tasks \in Seq(1..MaxTasks)
    /\ tasks_total \in 0..(WordMod - 1)
    /\ thread_count \in 1..MaxTid
    /\ Len(wpc) <= MaxTid
    /\ Range(threads) \subseteq Tids
    /\ nEnq \in 0..MaxTasks

\* =================================================================
\* Properties
\* =================================================================

\* wait_for_tasks has just left its loop through the unpaused branch
WaitReturnedUnpaused == dpc = "w_done" /\ hist.via = "total"

\* wait_for_tasks has just left its loop through the paused branch
WaitReturnedPaused == dpc = "w_done" /\ hist.via = "running"

\* C1: with the pool not paused, wait_for_tasks returns only in a state
\* where every task submitted so far, by the driver or by a task, has
\* finished: the queue is empty, no worker executes a task, and as many
\* tasks have finished as were submitted.
C1_WaitReturnsAfterAllTasks ==
    WaitReturnedUnpaused =>
        /\ tasks = <<>>
        /\ Executing = {}
        /\ Finished = Submitted

C1_Witness ==
    /\ WaitReturnedUnpaused
    /\ wait_ret = "idle"
    /\ hist.nested
    /\ nEnq >= 2

\* C2: under fair scheduling a wait_for_tasks called on the unpaused pool
\* eventually returns; this holds of every call, so also of a second call
\* made after further submissions.
C2_WaitEventuallyReturns ==
    (dpc = "w_chk" /\ wait_ret = "idle" /\ ~paused) ~> (dpc = "w_done")

C2_Witness ==
    /\ WaitReturnedUnpaused
    /\ wait_ret = "idle"
    /\ hist.waits = 0
    /\ hist.enqAtRet >= 1
    /\ nEnq > hist.enqAtRet

\* C3 as stated: tasks_total is >= 0 and is the number of queued tasks plus
\* the number of tasks being executed, in every state.
C3_TotalIsQueuedPlusExecuting ==
    /\ tasks_total >= 0
    /\ tasks_total = get_tasks_queued + Cardinality(Executing)

\* C3 amended: tasks_total is >= 0 and is the number of queued tasks plus
\* the number of tasks being executed plus the push_task calls between
\* their increment and their tasks.push plus the workers between the
\* return of their task and their decrement.
C3_TotalAccounting ==
    /\ tasks_total >= 0
    /\ tasks_total = get_tasks_queued + Cardinality(Executing)
                     + MidPush + Cardinality(PendingDec)

C3_Witness ==
    /\ MidPush >= 1
    /\ Cardinality(PendingDec) >= 1

\* C4 as stated: tasks_total is 0 exactly when the queue is empty and no
\* worker executes a task.
C4_ZeroIffIdle ==
    (tasks_total = 0) <=> (tasks = <<>> /\ Executing = {})

\* C4 amended: tasks_total = 0 implies an empty queue and no executing
\* worker; the converse holds in the states where no push_task is between
\* its increment and its tasks.push and no worker is between the return of
\* its task and its decrement.
C4_ZeroImpliesIdle ==
    /\ (tasks_total = 0) => (tasks = <<>> /\ Executing = {})
    /\ (tasks = <<>> /\ Executing = {} /\ MidPush = 0 /\ PendingDec = {})
           => (tasks_total = 0)

C4_Witness ==
    /\ tasks_total = 0
    /\ Len(popOrder) >= 2
    /\ tasks = <<>>
    /\ Executing = {}

\* C5: no task leaves the queue in a step taken while paused is true.
C5_NoDequeueWhilePaused ==
    [][Len(popOrder') > Len(popOrder) => ~paused]_vars

\* C6: a wait_for_tasks that leaves its loop through the paused branch
\* does so in a state where no worker is executing a task.
C6_PausedWaitReturnsWhenNoneRunning ==
    WaitReturnedPaused => Executing = {}

\* C7: after reset(k), k > 0, a wait_for_tasks on the unpaused pool returns
\* with exactly k live workers, none of them a worker that existed when
\* reset was called, and with tasks_total = 0; and a worker started by the
\* reset is never alive together with a worker from before it.
C7_ResetLeavesKFreshWorkers ==
    /\ (WaitReturnedUnpaused /\ wait_ret = "idle" /\ hist.lastK > 0) =>
           /\ Cardinality(Live) = hist.lastK
           /\ Live \cap hist.preReset = {}
           /\ tasks_total = 0
    /\ (hist.lastK >= 0 /\ Live \ hist.preReset # {}) =>
           Live \cap hist.preReset = {}

C7_Witness ==
    /\ WaitReturnedUnpaused
    /\ wait_ret = "idle"
    /\ hist.lastK > 0
    /\ Cardinality(hist.preReset) # hist.lastK
    /\ Len(popOrder) >= 1

\* the tasks of the queue that were queued when reset was called
QueuedAtResetStillQueued ==
    LET WasQueued(x) == x \in Range(hist.qAtReset)
    IN  SelectSeq(tasks, WasQueued)

\* the tasks queued when reset was called that no worker has dequeued
QueuedAtResetNotPopped ==
    LET NotPopped(x) == x \notin Range(popOrder)
    IN  SelectSeq(hist.qAtReset, NotPopped)

\* C8 as stated: when reset returns, every task that was queued when it
\* was called is still queued, in the same order, and paused is unchanged.
C8_ResetKeepsQueue ==
    dpc = "r_done" =>
        /\ QueuedAtResetStillQueued = hist.qAtReset
        /\ paused = hist.pausedAtReset

\* C8 amended: reset itself removes and reorders nothing: when it returns,
\* every task that was queued when it was called is either still queued,
\* in the same relative order, or was dequeued by a worker; and paused has
\* the value it had at the call.
C8_ResetDropsNoTask ==
    dpc = "r_done" =>
        /\ \A x \in Range(hist.qAtReset) :
               x \in Range(tasks) \/ x \in Range(popOrder)
        /\ QueuedAtResetStillQueued = QueuedAtResetNotPopped
        /\ paused = hist.pausedAtReset

C8_Witness ==
    /\ dpc = "r_done"
    /\ Len(hist.qAtReset) >= 2
    /\ hist.pausedAtReset
    /\ tasks = hist.qAtReset

ResetInProgress ==
    \/ wait_ret = "reset" /\ dpc \in {"w_chk", "w_op2", "w_done"}
    \/ dpc \in {"r_stop", "r_join", "r_alloc", "r_unpause", "r_run",
                "r_create"}

ResetPastJoin == dpc \in {"r_alloc", "r_unpause", "r_run"}

\* C9: under fair scheduling a reset in progress eventually returns; and
\* once its joins are done every worker that existed at the call has left
\* its loop, holding no task, and no task is executing or awaits its
\* decrement: the tasks in flight were run to their end.
C9_ResetReturnsAfterDrain ==
    /\ ResetInProgress ~> (dpc = "r_done")
    /\ [](ResetPastJoin =>
              /\ \A t \in hist.preReset : wpc[t] = "exited" /\ wtask[t] = 0
              /\ Executing = {}
              /\ PendingDec = {}
              /\ tasks_total = get_tasks_queued)

C9_Witness ==
    /\ dpc = "r_join"
    /\ hist.pausedAtReset
    /\ Len(hist.qAtReset) >= 1
    /\ \E t \in hist.preReset : wpc[t] \in {"run", "t_enq"}

\* C10: tasks leave the queue in the order they entered it (task ids are
\* given in the order of tasks.push): the i-th task dequeued is the i-th
\* task enqueued.
C10_DequeueIsFIFO ==
    \A i \in DOMAIN popOrder : popOrder[i] = i

C10_Witness ==
    /\ Len(popOrder) >= 2
    /\ Cardinality(Executing) >= 2

\* the destructor has set running to false and is joining the workers
DtorJoining == dpc = "d_join"

\* C11: under fair scheduling, once the destructor has set running to
\* false every join returns and the destructor ends; when it has ended
\* every worker thread has left its loop and holds no task; and while
\* running is false no worker passes the loop test again, so a worker ends
\* with the loop pass it is in.
C11_DestructorJoinsAllWorkers ==
    /\ DtorJoining ~> (dpc = "d_done")
    /\ [](dpc = "d_done" => \A t \in Tids : wpc[t] = "exited" /\ wtask[t] = 0)
    /\ [][\A t \in Tids :
             (~running /\ wpc[t] = "loop") => wpc'[t] \in {"loop", "exited"}]_vars

C11_Witness ==
    /\ DtorJoining
    /\ Executing # {}
    /\ Cardinality(Live) >= 2

\* a sequence without a repeated element
NoDup(q) == \A i, j \in DOMAIN q : q[i] = q[j] => i = j

\* every task is in exactly one place: in the queue, or taken from it
\* once; a task a worker holds was taken from the queue by that worker only
TaskOwnedOnce ==
    /\ NoDup(tasks)
    /\ NoDup(popOrder)
    /\ Range(tasks) \cap Range(popOrder) = {}
    /\ \A i \in 1..nEnq : i \in Range(tasks) \cup Range(popOrder)
    /\ \A t \in Tids : wtask[t] # 0 => wtask[t] \in Range(popOrder)
    /\ \A t, u \in Tids : (wtask[t] # 0 /\ wtask[t] = wtask[u]) => t = u

\* C17: a submitted task is dequeued at most once and held by one worker
\* only; under fair scheduling a queued task is eventually dequeued unless
\* the pool is paused or stopped, and a dequeued task is eventually
\* finished by the worker that took it.
C17_TaskExecutedExactlyOnce ==
    /\ []TaskOwnedOnce
    /\ \A i \in 1..LiveTasks :
          (i \in Range(tasks)) ~> (i \in Range(popOrder) \/ paused \/ ~running)
    /\ \A i \in 1..LiveTasks :
          (i \in Range(popOrder))
              ~> (i \in Range(popOrder) /\ \A t \in Tids : wtask[t] # i)

C17_Witness ==
    \E t, u \in Tids :
        /\ t # u
        /\ wtask[t] # 0
        /\ wtask[u] # 0
        /\ wtask[t] # wtask[u]

\* main's wait_for_tasks has returned after the root task was submitted
ListingDone == dpc = "m_done"

\* C12: when wait_for_tasks has returned after the root task, every
\* counter holds what listing the entries one after another gives, for
\* every number of workers and every interleaving.
C12_CountersIndependentOfSchedule ==
    ListingDone => cnt = SeqCounters(tree, tree.n)

\* the directories of the tree, the root counted, and its regular files
NumDirectories(tr) == 1 + Cardinality({e \in 1..tr.n : IsDir(tr, e)})

NumRegularFiles(tr) == Cardinality({e \in 1..tr.n : ~IsDir(tr, e)})

\* C13: with a single worker, after the root task is submitted and the
\* pool has drained, the directory counter is the number of directories of
\* the tree counting the root and the file counter is the number of its
\* regular files.
C13_CountsDirectoriesAndFiles ==
    (ListingDone /\ thread_count = 1) =>
        /\ cnt.dirs = NumDirectories(tree)
        /\ cnt.files = NumRegularFiles(tree)

\* C14: an error raised while a task lists a directory is caught at the
\* task: the process is not ended by it, no worker is lost.
C14_TraversalErrorIsCaught ==
    /\ ~crashed
    /\ \A t \in Tids : wpc[t] # "terminated"

\* C19: no thread holds queue_mutex and stream_mutex at the same time.
C19_NeverBothMutexes ==
    \A x \in Tids \cup {MainThread} :
        ~(queue_mutex = x /\ stream_mutex = x)

C19_Witness ==
    /\ queue_mutex \in Tids
    /\ stream_mutex \in Tids
    /\ \E t \in Tids : wpc[t] \in {"tv_pdir_cs", "tv_pfile_cs"}
    /\ \E t \in Tids : wpc[t] \in {"tv_push_cs", "pop_cs"}

\* threadPools::wait_for_tasks, called by the driver, has left its loop
TPWaitReturned == dpc = "w_done" /\ wait_ret = "idle"

\* C15: threadPools: after reset(k), k > 0, a wait_for_tasks on the
\* unpaused pool returns with exactly k live workers and tasks_total = 0.
C15_TPResetLeavesKWorkers ==
    (TPWaitReturned /\ ~paused /\ hist.lastK > 0) =>
        /\ Cardinality(Live) = hist.lastK
        /\ tasks_total = 0

\* C16: threadPools: a pass of the loop of wait_for_tasks made while
\* paused, with the running count (tasks_total minus queued) zero, leaves
\* the loop.
C16_TPPausedWaitReturnsWhenNoneRunning ==
    [][(dpc = "w_chk" /\ paused /\ tasks_total - Len(tasks) = 0
            /\ dpc' # dpc)
        => dpc' = "w_done"]_vars

\* C18: threadPools: tasks_total is the number of tasks_total++ written
\* minus the number of tasks_total-- written, it is never negative, and it
\* is zero only when no task is queued or executing.
C18_TPTotalIsSubmittedMinusCompleted ==
    /\ tasks_total
         = (nEnq + TPMidPush) - (Len(popOrder) - Cardinality(TPHolding))
    /\ tasks_total >= 0
    /\ tasks_total = 0 => (tasks = <<>> /\ TPExecuting = {})

====
